---------------------------- MODULE Spec2Model ----------------------------
(***************************************************************************)
(* iron-archivist: the access policy (Config::method_for) and the request  *)
(* handler (Archivist::handle).                                            *)
(*                                                                         *)
(* Strings (URL segments, paths, file names) are sequences of tokens. A    *)
(* token is a separator "/", a dot ".", a byte that is not valid UTF-8     *)
(* (BAD), a percent escape of the URL ("%2F", "%FF") or a run of ordinary  *)
(* letters.  No letter token is a prefix of another one.                   *)
(***************************************************************************)
EXTENDS Naturals, Sequences, FiniteSets

VARIABLES config, raw, req, resp, dirio

vars == <<config, raw, req, resp, dirio>>

(***************************************************************************)
(* Bounds of the model.                                                    *)
(***************************************************************************)
MaxSegs == 2

(***************************************************************************)
(* Tokens and names.                                                       *)
(***************************************************************************)
SEP == "/"
DOT == "."
BAD == "0xFF"

EMPTY  == << >>
A_MD   == <<"a", DOT, "md">>
I_PNG  == <<"i", DOT, "png">>
N_BAD  == <<"n", DOT, BAD>>
NOEXT  == <<"n">>
DOT_S  == <<DOT, "s">>
DOT_H  == <<DOT, "h">>
DIR_D  == <<"d">>
DIR_K  == <<"k">>
DIR_E  == <<"e">>
DIR_R  == <<"r">>
LINK_Y == <<"y">>
DIR_BAD == <<BAD>>
DOT_BAD == <<DOT, BAD>>

(***************************************************************************)
(* Generic helpers on sequences.                                           *)
(***************************************************************************)
Last(s) == s[Len(s)]

RECURSIVE SplitAt(_, _, _, _)
\* The pieces of s between occurrences of token sep (empty pieces kept).
SplitAt(s, sep, i, cur) ==
    IF i > Len(s) THEN <<cur>>
    ELSE IF s[i] = sep THEN <<cur>> \o SplitAt(s, sep, i + 1, << >>)
    ELSE SplitAt(s, sep, i + 1, Append(cur, s[i]))

Split(s, sep) == SplitAt(s, sep, 1, << >>)

SeqsUpTo(S, n) == UNION {[1..k -> S] : k \in 1..n}

(***************************************************************************)
(* The file system the server runs on: a fixed tree.  A node is named by   *)
(* its canonical absolute path, the sequence of the names leading to it.   *)
(* The working directory of the process is the root of the tree.           *)
(*   kind     "dir", "file" or "dangling" (a symbolic link to nothing:     *)
(*            read_dir lists it, stat fails on it)                         *)
(*   utf8     the content of a file is valid UTF-8                         *)
(*   listable read_dir succeeds on a directory                             *)
(*   mtime    last modification, in seconds                                *)
(***************************************************************************)
Node(p, k, u, l, m) == [path |-> p, kind |-> k, utf8 |-> u, listable |-> l, mtime |-> m]

FS ==
    { Node(<< >>,                 "dir",      FALSE, TRUE,  0),
      Node(<<DIR_R>>,             "dir",      FALSE, TRUE,  10),
      Node(<<DIR_R, A_MD>>,       "file",     TRUE,  FALSE, 200),
      Node(<<DIR_R, I_PNG>>,      "file",     FALSE, FALSE, 130),
      Node(<<DIR_R, NOEXT>>,      "file",     TRUE,  FALSE, 70),
      Node(<<DIR_R, N_BAD>>,      "file",     TRUE,  FALSE, 75),
      Node(<<DIR_R, DOT_S>>,      "file",     TRUE,  FALSE, 60),
      Node(<<DIR_R, LINK_Y>>,     "dangling", FALSE, FALSE, 65),
      Node(<<DIR_R, DIR_D>>,      "dir",      FALSE, TRUE,  300),
      Node(<<DIR_R, DIR_D, A_MD>>,    "file", FALSE, FALSE, 310),
      Node(<<DIR_R, DIR_D, DIR_BAD>>, "dir",  FALSE, TRUE,  320),
      Node(<<DIR_R, DIR_D, DOT_BAD>>, "file", TRUE,  FALSE, 330),
      Node(<<DIR_R, DOT_H>>,      "dir",      FALSE, TRUE,  20),
      Node(<<DIR_R, DOT_H, A_MD>>,    "file", TRUE,  FALSE, 30),
      Node(<<DIR_R, DIR_K>>,      "dir",      FALSE, FALSE, 40),
      Node(<<DIR_R, DIR_K, A_MD>>,    "file", TRUE,  FALSE, 50),
      Node(<<DIR_E>>,             "dir",      FALSE, TRUE,  5),
      Node(<<DIR_E, A_MD>>,       "file",     TRUE,  FALSE, 6) }

FSPaths == {n.path : n \in FS}

NodeAt(p) == CHOOSE n \in FS : n.path = p

IsDirAt(p) == p \in FSPaths /\ NodeAt(p).kind = "dir"

\* The names of the immediate children of the directory at p.
ChildNames(p) == {Last(q) : q \in {x \in FSPaths : Len(x) = Len(p) + 1 /\ SubSeq(x, 1, Len(p)) = p}}

Parent(p) == IF p = << >> THEN << >> ELSE SubSeq(p, 1, Len(p) - 1)

NoEnt == [ok |-> FALSE, at |-> << >>]

RECURSIVE Walk(_, _, _)
\* Path resolution of the operating system: every piece is looked up in a
\* directory; an empty piece and "." stay, ".." goes up.
Walk(pieces, i, cur) ==
    IF i > Len(pieces) THEN [ok |-> TRUE, at |-> cur]
    ELSE IF ~IsDirAt(cur) THEN NoEnt
    ELSE IF pieces[i] = << >> \/ pieces[i] = <<DOT>> THEN Walk(pieces, i + 1, cur)
    ELSE IF pieces[i] = <<DOT, DOT>> THEN Walk(pieces, i + 1, Parent(cur))
    ELSE IF Append(cur, pieces[i]) \in FSPaths THEN Walk(pieces, i + 1, Append(cur, pieces[i]))
    ELSE NoEnt

\* The node a path string names, following the operating system's rules.
Resolve(path) == IF path = << >> THEN NoEnt ELSE Walk(Split(path, SEP), 1, << >>)

\* std::path::Path::metadata (stat): an error, or the node's metadata.
Metadata(path) ==
    LET r == Resolve(path)
    IN  IF r.ok /\ NodeAt(r.at).kind # "dangling"
        THEN [ok |-> TRUE, is_dir |-> NodeAt(r.at).kind = "dir", at |-> r.at]
        ELSE [ok |-> FALSE, is_dir |-> FALSE, at |-> << >>]

(***************************************************************************)
(* std::path on Unix.                                                      *)
(***************************************************************************)
IsAbsolute(s) == Len(s) > 0 /\ s[1] = SEP

\* PathBuf::push: an absolute argument replaces the buffer; otherwise a
\* separator is added unless the buffer is empty or ends with one.
Push(buf, s) ==
    IF IsAbsolute(s) THEN s
    ELSE IF Len(buf) > 0 /\ Last(buf) # SEP THEN buf \o <<SEP>> \o s
    ELSE buf \o s

\* Path::join
Join(base, s) == Push(base, s)

Comp(t, s) == [t |-> t, s |-> s]

RECURSIVE CompsOf(_, _, _)
CompsOf(pieces, i, rooted) ==
    IF i > Len(pieces) THEN << >>
    ELSE LET p == pieces[i]
             rest == CompsOf(pieces, i + 1, rooted)
         IN  IF p = << >> THEN rest
             ELSE IF p = <<DOT>> THEN (IF i = 1 /\ ~rooted THEN <<Comp("CurDir", p)>> \o rest ELSE rest)
             ELSE IF p = <<DOT, DOT>> THEN <<Comp("ParentDir", p)>> \o rest
             ELSE <<Comp("Normal", p)>> \o rest

\* Path::components
Components(path) ==
    (IF IsAbsolute(path) THEN <<Comp("RootDir", <<SEP>>)>> ELSE << >>)
        \o CompsOf(Split(path, SEP), 1, IsAbsolute(path))

None == [some |-> FALSE, v |-> << >>]
Some(x) == [some |-> TRUE, v |-> x]

\* Path::file_name: the last component, when it is a normal one.
FileName(path) ==
    LET cs == Components(path)
    IN  IF Len(cs) > 0 /\ Last(cs).t = "Normal" THEN Some(Last(cs).s) ELSE None

DotPositions(name) == {i \in 1..Len(name) : name[i] = DOT}

Max(S) == CHOOSE x \in S : \A y \in S : y <= x

\* Path::extension: what follows the last dot of the file name, when the
\* name has a dot that is not its first character.
Extension(path) ==
    LET fn == FileName(path)
    IN  IF ~fn.some \/ DotPositions(fn.v) = {} THEN None
        ELSE LET d == Max(DotPositions(fn.v))
             IN  IF d = 1 THEN None ELSE Some(SubSeq(fn.v, d + 1, Len(fn.v)))

\* OsStr::to_str succeeds on valid UTF-8 only.
IsUtf8(s) == \A i \in 1..Len(s) : s[i] # BAD

(***************************************************************************)
(* Config (config.rs).                                                     *)
(***************************************************************************)
Cfg(root, all, exts, names, blocked, md) ==
    [root_dir |-> root, allow_all |-> all, allowed_extensions |-> exts,
     allowed_file_names |-> names, blocked_file_names |-> blocked, markdown |-> md]

\* mime_guess::get_mime_type, by its top-level type; an extension it does
\* not know is application/octet-stream.
MimeTopLevel(ext) ==
    IF ext \in {<<"md">>, <<"txt">>} THEN "text"
    ELSE IF ext = <<"png">> THEN "image"
    ELSE "application"

StartsWithDot(s) == IsUtf8(s) /\ Len(s) > 0 /\ s[1] = DOT

\* SafetyDenied without the ParentDir arm.
SafetyDenied_NoParentDir(cfg, path) ==
    LET cs == Components(path)
    IN  \E i \in 1..Len(cs) :
            /\ cs[i].t = "Normal"
            /\ \/ /\ Len(cs[i].s) > 0
                  /\ StartsWithDot(cs[i].s)
                  /\ cs[i].s \notin cfg.allowed_file_names
               \/ cs[i].s \in cfg.blocked_file_names

\* SafetyDenied with the allow list consulted before the block list.
SafetyDenied_AllowFirst(cfg, path) ==
    LET cs == Components(path)
    IN  \E i \in 1..Len(cs) :
            \/ /\ cs[i].t = "Normal"
               /\ cs[i].s \notin cfg.allowed_file_names
               /\ \/ (Len(cs[i].s) > 0 /\ StartsWithDot(cs[i].s))
                  \/ cs[i].s \in cfg.blocked_file_names
            \/ cs[i].t = "ParentDir"

\* The loop over path.components(): TRUE when some component makes
\* method_for return Ok(None).
SafetyDenied(cfg, path) ==
    LET cs == Components(path)
    IN  \E i \in 1..Len(cs) :
            \/ /\ cs[i].t = "Normal"
               /\ \/ /\ Len(cs[i].s) > 0
                     /\ StartsWithDot(cs[i].s)
                     /\ cs[i].s \notin cfg.allowed_file_names
                  \/ cs[i].s \in cfg.blocked_file_names
            \/ cs[i].t = "ParentDir"

\* method_for with the content type consulted before the markdown set.
method_for_MimeFirst(cfg, path) ==
    LET metadata == Metadata(path)
        fn == FileName(path)
        file_name == IF fn.some THEN fn.v ELSE << >>
        ext == Extension(path)
    IN  IF ~metadata.ok THEN "Err"
        ELSE IF SafetyDenied(cfg, path) THEN "None"
        ELSE IF metadata.is_dir THEN "Dir"
        ELSE IF ~ext.some
             THEN (IF file_name \in cfg.allowed_file_names \/ cfg.allow_all
                   THEN "Verbatim" ELSE "None")
        ELSE IF /\ ~cfg.allow_all
                /\ ext.v \notin cfg.allowed_extensions
                /\ file_name \notin cfg.allowed_file_names
             THEN "None"
        ELSE IF ~IsUtf8(ext.v) THEN "None"
        ELSE IF MimeTopLevel(ext.v) = "text" THEN "Verbatim"
        ELSE IF ext.v \in cfg.markdown THEN "Markdown"
        ELSE "Raw"

\* Config::method_for: "Err" (the metadata cannot be read), "None" (denied)
\* or the access method.
method_for(cfg, path) ==
    LET metadata == Metadata(path)
        fn == FileName(path)
        file_name == IF fn.some THEN fn.v ELSE << >>
        ext == Extension(path)
    IN  IF ~metadata.ok THEN "Err"
        ELSE IF SafetyDenied(cfg, path) THEN "None"
        ELSE IF metadata.is_dir THEN "Dir"
        ELSE IF ~ext.some
             THEN (IF file_name \in cfg.allowed_file_names \/ cfg.allow_all
                   THEN "Verbatim" ELSE "None")
        ELSE IF /\ ~cfg.allow_all
                /\ ext.v \notin cfg.allowed_extensions
                /\ file_name \notin cfg.allowed_file_names
             THEN "None"
        ELSE IF ext.v \in cfg.markdown THEN "Markdown"
        ELSE IF ~IsUtf8(ext.v) THEN "None"
        ELSE IF MimeTopLevel(ext.v) = "text" THEN "Verbatim"
        ELSE "Raw"

is_file(m) == m \in {"Markdown", "Verbatim", "Raw"}

is_dir(m) == m = "Dir"

(***************************************************************************)
(* Ordering of directory entries (archivist.rs).                           *)
(***************************************************************************)
\* The byte order of the tokens.
TokRank(t) ==
    CASE t = DOT -> 1 [] t = SEP -> 2 [] t = "a" -> 3 [] t = "d" -> 4
      [] t = "e" -> 5 [] t = "h" -> 6 [] t = "i" -> 7 [] t = "k" -> 8
      [] t = "md" -> 9 [] t = "n" -> 10 [] t = "png" -> 11 [] t = "r" -> 12
      [] t = "s" -> 13 [] t = "txt" -> 14 [] t = "y" -> 15 [] t = BAD -> 16

RECURSIVE CmpNames(_, _, _)
\* Ord::cmp of two OsStrings: "Less", "Equal" or "Greater", byte by byte.
CmpNames(a, b, i) ==
    IF i > Len(a) /\ i > Len(b) THEN "Equal"
    ELSE IF i > Len(a) THEN "Less"
    ELSE IF i > Len(b) THEN "Greater"
    ELSE IF TokRank(a[i]) < TokRank(b[i]) THEN "Less"
    ELSE IF TokRank(a[i]) > TokRank(b[i]) THEN "Greater"
    ELSE CmpNames(a, b, i + 1)

cmp_entry_by_name(e1, e2) == CmpNames(e1.file_name, e2.file_name, 1)

\* DirEntry::metadata (lstat) and Metadata::modified of a directory entry.
EntryModified(e) ==
    IF e.sort_ok /\ e.at \in FSPaths THEN Some(NodeAt(e.at).mtime) ELSE None

cmp_entry_by_modified(e1, e2) ==
    LET m1 == EntryModified(e1)
        m2 == EntryModified(e2)
    IN  IF ~m1.some \/ ~m2.some THEN "Equal"
        ELSE IF m1.v < m2.v THEN "Less"
        ELSE IF m1.v > m2.v THEN "Greater"
        ELSE "Equal"

Cmp(order, e1, e2) ==
    IF order = "Lexicographical" THEN cmp_entry_by_name(e1, e2)
    ELSE cmp_entry_by_modified(e1, e2)

RECURSIVE InsertHead(_, _, _)
\* x is put in front of the sorted sequence v and moved right past every
\* element that compares Less than it.
InsertHead(order, x, v) ==
    IF v = << >> THEN <<x>>
    ELSE IF Cmp(order, Head(v), x) = "Less"
         THEN <<Head(v)>> \o InsertHead(order, x, Tail(v))
    ELSE <<x>> \o v

RECURSIVE SortBy(_, _)
\* slice::sort_by on a short slice: a stable insertion sort from the back.
SortBy(order, v) ==
    IF Len(v) <= 1 THEN v
    ELSE InsertHead(order, Head(v), SortBy(order, Tail(v)))

\* get_entry_order: the value of the query parameter "order".
get_entry_order(order) ==
    IF order = "lexicographical" THEN Some("Lexicographical")
    ELSE IF order = "chronological" THEN Some("Chronological")
    ELSE None

(***************************************************************************)
(* Requests.                                                               *)
(***************************************************************************)
\* url::percent_encoding::percent_decode, token by token.
DecodeToken(t) ==
    IF t = "%2F" THEN SEP
    ELSE IF t = "%2E" THEN DOT
    ELSE IF t = "%FF" THEN BAD
    ELSE t

percent_decode(n) == [i \in 1..Len(n) |-> DecodeToken(n[i])]

\* The segments a request URL is made of.  The URL parser has removed the
\* segments "." and ".." (also written %2E) before the handler sees them.
UrlSegs ==
    { EMPTY, A_MD, I_PNG, NOEXT, DOT_S, DIR_D, DOT_H, DIR_K,
      <<"%2F", "e">>, <<DOT, DOT, "%2F", "e">>, <<"%FF">> }

Orders == {"absent", "lexicographical", "chronological", "other"}

\* mount::OriginalUrl: absent, or the last segment of the URL the outer
\* router received.  Mount strips its prefix; when nothing is left the path
\* of the request is the single empty segment.
MOUNT_M == <<"m">>

OriginalLasts(segs) ==
    {None} \cup (IF Len(segs) = 1 THEN {Some(Last(segs))} ELSE {})
           \cup (IF segs = <<EMPTY>> THEN {Some(MOUNT_M)} ELSE {})

RECURSIVE PushAll(_, _, _)
\* The loop of handle over req.url.path(): every decoded segment is pushed.
PushAll(buf, segs, i) ==
    IF i > Len(segs) THEN buf
    ELSE PushAll(Push(buf, percent_decode(segs[i])), segs, i + 1)

(***************************************************************************)
(* Directory listing.                                                      *)
(***************************************************************************)
MinName(S) == CHOOSE x \in S : \A y \in S : CmpNames(x, y, 1) # "Greater"

RECURSIVE Ascending(_)
Ascending(S) == IF S = {} THEN << >> ELSE <<MinName(S)>> \o Ascending(S \ {MinName(S)})

Reverse(v) == [i \in 1..Len(v) |-> v[Len(v) + 1 - i]]

\* fs::read_dir: the names of the children in the order the file system
\* gives them, which is one of two orders here.
\* The files another process rewrites (removes and creates again) while the
\* server runs: lstat on them can fail after read_dir has listed them.
Volatile == {I_PNG}

\* What the file system does during one request: the order in which
\* read_dir enumerates, and whether the metadata of the volatile files can
\* be read: always ("none"), not while the listing is sorted ("sorting"),
\* or not from the sort on ("lasting").
Io(rev, unread) == [rev |-> rev, unread |-> unread]

ReadDirNames(at, rev) ==
    IF rev THEN Reverse(Ascending(ChildNames(at))) ELSE Ascending(ChildNames(at))

\* std::fs::DirEntry: e.file_name(), e.path() and the node it stands for.
DirEntryOf_ParentPath(full_path, at, name, io) ==
    [file_name |-> name, path |-> full_path, at |-> Append(at, name),
     sort_ok |-> ~(name \in Volatile /\ io.unread \in {"sorting", "lasting"}),
     from_ok |-> ~(name \in Volatile /\ io.unread = "lasting")]

DirEntryOf(full_path, at, name, io) ==
    [file_name |-> name, path |-> Join(full_path, name), at |-> Append(at, name),
     sort_ok |-> ~(name \in Volatile /\ io.unread \in {"sorting", "lasting"}),
     from_ok |-> ~(name \in Volatile /\ io.unread = "lasting")]

ReadDir(full_path, at, io) ==
    LET names == ReadDirNames(at, io.rev)
    IN  [i \in 1..Len(names) |-> DirEntryOf(full_path, at, names[i], io)]

\* The filter of the listing with a child whose metadata cannot be read
\* let through.
Visible_ErrShown(cfg, e) == method_for(cfg, e.path) # "None"

\* The filter of the listing: method_for(e.path()).unwrap_or(None).is_some()
Visible(cfg, e) == method_for(cfg, e.path) \notin {"Err", "None"}

RECURSIVE Filter(_, _)
Filter(cfg, v) ==
    IF v = << >> THEN << >>
    ELSE IF Visible(cfg, Head(v)) THEN <<Head(v)>> \o Filter(cfg, Tail(v))
    ELSE Filter(cfg, Tail(v))

\* Entry::from (entry.rs): fails when the metadata of the entry cannot be
\* read or its name is not valid UTF-8.  The time is formatted by minutes.
EntryFrom(e) ==
    IF ~e.from_ok \/ e.at \notin FSPaths \/ ~IsUtf8(e.file_name) THEN None
    ELSE Some([is_dir |-> NodeAt(e.at).kind = "dir",
               file_name |-> e.file_name,
               modified |-> NodeAt(e.at).mtime \div 60])

Sorted_DefaultLex(order, v) ==
    LET o == get_entry_order(order)
    IN  IF o.some THEN SortBy(o.v, v) ELSE SortBy("Lexicographical", v)

Sorted(order, v) ==
    LET o == get_entry_order(order)
    IN  IF o.some THEN SortBy(o.v, v) ELSE v

(***************************************************************************)
(* Responses.  The renderer is the one of examples/simple.rs, which always *)
(* succeeds; the response records which of its methods was called.         *)
(*   outcome  "idle", "decision" (method_for was asked directly),          *)
(*            "response" or "panic"                                        *)
(*   status   the HTTP status of the response                              *)
(*   render   the renderer method called ("none" when none is)             *)
(*   code     the code handed to render_error                              *)
(*   target   the node whose bytes or text the body is made of             *)
(*   entries  the entries handed to render_dir                             *)
(*   access, full_path   what method_for was asked and what it answered    *)
(***************************************************************************)
Response(outcome, status, render, code, target, entries, access, full_path) ==
    [outcome |-> outcome, status |-> status, render |-> render, code |-> code,
     target |-> target, entries |-> entries, access |-> access, full_path |-> full_path]

Idle == Response("idle", 0, "none", 0, None, << >>, "unasked", << >>)

Panic(access, full_path) ==
    Response("panic", 0, "none", 0, None, << >>, access, full_path)

Decision(access, full_path) ==
    Response("decision", 0, "none", 0, None, << >>, access, full_path)

\* Archivist::not_found
not_found(access, full_path) ==
    Response("response", 404, "error", 404, None, << >>, access, full_path)

\* Archivist::invalid_format
invalid_format(access, full_path) ==
    Response("response", 404, "error", 416, None, << >>, access, full_path)

\* serve_raw: the file at full_path is the body.
serve_raw(access, full_path) ==
    Response("response", 200, "none", 0, Some(Metadata(full_path).at), << >>, access, full_path)

\* response_html around a page of the renderer.
response_html(render, target, entries, access, full_path) ==
    Response("response", 200, render, 0, target, entries, access, full_path)

Redirect ==
    Response("response", 301, "none", 0, None, << >>, "unasked", << >>)

\* The Markdown and Verbatim arms: File::open, read_to_string, render.
ServeText(render, access, full_path) ==
    LET at == Metadata(full_path).at
    IN  IF NodeAt(at).utf8
        THEN response_html(render, Some(at), << >>, access, full_path)
        ELSE invalid_format(access, full_path)

\* The Dir arm: read_dir, filter, sort, Entry::from, render_dir.
ServeDir(cfg, order, io, access, full_path) ==
    LET at == Metadata(full_path).at
        dir_entries == Sorted(order, Filter(cfg, ReadDir(full_path, at, io)))
        entries == [i \in 1..Len(dir_entries) |-> EntryFrom(dir_entries[i])]
    IN  IF ~NodeAt(at).listable THEN Panic(access, full_path)
        ELSE IF \E i \in 1..Len(entries) : ~entries[i].some THEN Panic(access, full_path)
        ELSE response_html("dir", Some(at), [i \in 1..Len(entries) |-> entries[i].v],
                           access, full_path)

\* The raw arm with Markdown files still rendered.
ServeRawOnly_Render(access, full_path) ==
    IF access = "Markdown" THEN ServeText("markdown", access, full_path)
    ELSE IF is_file(access) THEN serve_raw(access, full_path)
    ELSE not_found(access, full_path)

\* The arm of handle taken when self.raw is set.
ServeRawOnly(access, full_path) ==
    IF is_file(access) THEN serve_raw(access, full_path)
    ELSE not_found(access, full_path)

\* Archivist::handle
handle(cfg, rawMode, rq, io) ==
    LET path == PushAll(<< >>, rq.segs, 1)
        full_path == Join(cfg.root_dir, path)
        access == method_for(cfg, full_path)
        trailing_slash == Last(rq.segs) = EMPTY
    IN  IF \E i \in 1..Len(rq.segs) : ~IsUtf8(percent_decode(rq.segs[i]))
        THEN Panic("unasked", << >>)
        ELSE IF rq.orig.some /\ rq.orig.v # Last(rq.segs) THEN Redirect
        ELSE IF access \in {"Err", "None"} THEN not_found(access, full_path)
        ELSE IF (trailing_slash /\ is_file(access)) \/ (~trailing_slash /\ is_dir(access))
             THEN not_found(access, full_path)
        ELSE IF rawMode THEN ServeRawOnly(access, full_path)
        ELSE IF access = "Markdown" THEN ServeText("markdown", access, full_path)
        ELSE IF access = "Verbatim" THEN ServeText("verbatim", access, full_path)
        ELSE IF access = "Raw" THEN serve_raw(access, full_path)
        ELSE ServeDir(cfg, rq.order, io, access, full_path)

(***************************************************************************)
(* The state machine.                                                      *)
(***************************************************************************)
\* The same directory spelled through a neighbour: e/../r.
ROOT_UP == <<"e", SEP, DOT, DOT, SEP, "r">>

RootDirs == {DIR_R, ROOT_UP}

\* Every policy with the plain root, and the policies that differ in
\* allow_all and in the allowed names with the other spelling of it.
Configs ==
    { Cfg(root, all, exts, names, blocked, md) :
        root \in {DIR_R}, all \in BOOLEAN,
        exts \in {{}, {<<"md">>, <<"png">>}},
        names \in {{}, {DOT_S, DOT_H, NOEXT, DIR_K}},
        blocked \in {{}, {DIR_K}},
        md \in {{}, {<<"md">>}} }
    \cup
    { Cfg(root, all, exts, names, blocked, md) :
        root \in {ROOT_UP}, all \in BOOLEAN,
        exts \in {{<<"md">>, <<"png">>}},
        names \in {{}, {DOT_S, DOT_H, NOEXT, DIR_K}},
        blocked \in {{}},
        md \in {{<<"md">>}} }

Request(segs, order, orig) == [segs |-> segs, order |-> order, orig |-> orig]

NoRequest == Request(<<EMPTY>>, "absent", None)

\* The paths method_for is asked about directly: the root joined with
\* names, among them names that are not valid UTF-8.
QueryNames == {percent_decode(n) : n \in UrlSegs} \cup {N_BAD, DIR_BAD, DOT_BAD, LINK_Y}

RECURSIVE JoinAll(_, _, _)
JoinAll(buf, names, i) ==
    IF i > Len(names) THEN buf ELSE JoinAll(Join(buf, names[i]), names, i + 1)

\* What the Dir arm of a request got from the file system: the names in
\* the order read_dir gave them and the names whose modification time
\* could not be read while sorting (both empty when read_dir gave nothing).
DirIo(enumerated, unread) == [enumerated |-> enumerated, unread |-> unread]

NoDirIo == DirIo(<< >>, {})

DirIoOf(rsp, rawMode, rq, io) ==
    LET at == Metadata(rsp.full_path).at
    IN  IF /\ rsp.outcome \in {"response", "panic"} /\ rsp.access = "Dir"
           /\ ~rawMode /\ Last(rq.segs) = EMPTY /\ NodeAt(at).listable
        THEN DirIo(ReadDirNames(at, io.rev),
                   IF io.unread = "none" THEN {} ELSE Volatile \cap ChildNames(at))
        ELSE NoDirIo

\* The races with the process that rewrites the volatile files are
\* explored on the requests that sort by modification time.
IosFor(order) ==
    {Io(rev, unread) : rev \in BOOLEAN,
                       unread \in IF order = "chronological"
                                   THEN {"none", "sorting", "lasting"} ELSE {"none"}}

\* Archivist::summon or Archivist::summon_raw with some configuration.
Init ==
    /\ config \in Configs
    /\ raw \in BOOLEAN
    /\ req = NoRequest
    /\ resp = Idle
    /\ dirio = NoDirIo

\* A request arrives and is handled; the handler keeps nothing between
\* requests, so a request starts from the idle server.
Handle ==
    /\ resp = Idle
    /\ \E segs \in SeqsUpTo(UrlSegs, MaxSegs), order \in Orders :
          \E orig \in OriginalLasts(segs), io \in IosFor(order) :
            /\ req' = Request(segs, order, orig)
            /\ resp' = handle(config, raw, req', io)
            /\ dirio' = DirIoOf(resp', raw, req', io)
            /\ UNCHANGED <<config, raw>>

\* Config::method_for is called directly.
MethodFor ==
    /\ resp = Idle
    /\ \E names \in SeqsUpTo(QueryNames, MaxSegs) :
        /\ req' = NoRequest
        /\ resp' = Decision(method_for(config, JoinAll(config.root_dir, names, 1)),
                            JoinAll(config.root_dir, names, 1))
        /\ dirio' = NoDirIo
        /\ UNCHANGED <<config, raw>>

\* The response has been sent (or the worker has unwound from the panic);
\* the server waits for the next request.
Return ==
    /\ resp # Idle
    /\ req' = NoRequest
    /\ resp' = Idle
    /\ dirio' = NoDirIo
    /\ UNCHANGED <<config, raw>>

Next == Handle \/ MethodFor \/ Return

Spec == Init /\ [][Next]_vars

(***************************************************************************)
(* Vocabulary of the properties.                                           *)
(***************************************************************************)
\* method_for has been asked about resp.full_path and answered resp.access.
Asked == resp.access # "unasked"

\* A request has been handled, to a response or to a panic.
Handled == resp.outcome \in {"response", "panic"}

AccessMethods == {"Markdown", "Verbatim", "Raw", "Dir"}

\* The names between the separators of a path string.
Pieces(path) == {Split(path, SEP)[i] : i \in 1..Len(Split(path, SEP))}

HasDotDot(path) == <<DOT, DOT>> \in Pieces(path)

\* The component names of a path: its pieces other than "", "." and "..".
PieceNames(path) == Pieces(path) \ {<< >>, <<DOT>>, <<DOT, DOT>>}

HasHiddenName(cfg, path) ==
    \E n \in PieceNames(path) : n[1] = DOT /\ n \notin cfg.allowed_file_names

HasBlockedName(cfg, path) ==
    \E n \in PieceNames(path) : n \in cfg.blocked_file_names

MetadataReadable(path) == Metadata(path).ok

C3_HiddenDenied ==
    (Asked /\ HasHiddenName(config, resp.full_path))
        => /\ resp.access \notin AccessMethods
           /\ MetadataReadable(resp.full_path) => resp.access = "None"

UnderRoot(cfg, at) ==
    LET root == Resolve(cfg.root_dir).at
    IN  Len(at) >= Len(root) /\ SubSeq(at, 1, Len(root)) = root

\* C2: whatever the percent-encoded segments of the URL are, no file or
\* directory outside the configured root is read, streamed or listed.
C2_WithinRoot ==
    (resp.outcome = "response" /\ resp.target.some) => UnderRoot(config, resp.target.v)

TrailingSlash == Last(req.segs) = EMPTY

\* The path of the request without its trailing empty segment.
UnslashedPath ==
    Join(config.root_dir, PushAll(<< >>, SubSeq(req.segs, 1, Len(req.segs) - 1), 1))

\* C5: when directories are served at all (not in raw-only mode), a
\* directory that exists and passes the policy yields 404 without the
\* trailing empty segment and the 200 listing with it; a regular file that
\* passes the policy yields 404 with a trailing empty segment; no 200 is
\* produced for (slash, file) or (no slash, directory).
C5_TrailingSlash ==
    (Handled /\ ~raw) =>
        /\ (resp.access = "Dir" /\ ~TrailingSlash) => resp.status = 404
        /\ (resp.access = "Dir" /\ TrailingSlash) => (resp.status = 200 /\ resp.render = "dir")
        /\ (/\ TrailingSlash /\ Len(req.segs) > 1 /\ Asked
            /\ method_for(config, UnslashedPath) \in {"Markdown", "Verbatim", "Raw"})
               => resp.status = 404
        /\ (resp.status = 200 /\ resp.target.some)
               => (TrailingSlash <=> NodeAt(resp.target.v).kind = "dir")

\* The request reached a text file that is not valid UTF-8.
InvalidTextRequest ==
    /\ Handled /\ ~raw /\ ~TrailingSlash
    /\ resp.access \in {"Markdown", "Verbatim"}
    /\ ~NodeAt(Metadata(resp.full_path).at).utf8

\* C6: a Markdown or Verbatim file that is not valid UTF-8 is answered with
\* HTTP status 416 through render_error(416); status 404 is produced only
\* for a denied, missing or shape-mismatched path.
C6_InvalidUtf8Is416 ==
    /\ InvalidTextRequest => (resp.status = 416 /\ resp.render = "error" /\ resp.code = 416)
    /\ (Handled /\ resp.status = 404)
           => \/ resp.access \in {"Err", "None"}
              \/ (TrailingSlash /\ resp.access \in {"Markdown", "Verbatim", "Raw"})
              \/ (~TrailingSlash /\ resp.access = "Dir")
              \/ (raw /\ resp.access = "Dir")

\* C7: every per-request failure ends in an HTTP error response, never in
\* a panic of the handler.
C7_NoPanic == resp.outcome # "panic"

\* C8: in raw-only mode a file that passes decoding, the policy and the
\* trailing-slash check is answered 200 with its own bytes whatever the
\* method, with no call to render_markdown, render_verbatim or render_dir,
\* and a directory is answered 404 with or without the trailing slash.
C8_RawOnly ==
    (raw /\ Handled /\ Asked) =>
        /\ resp.render \notin {"markdown", "verbatim", "dir"}
        /\ (resp.access \in {"Markdown", "Verbatim", "Raw"} /\ ~TrailingSlash)
               => /\ resp.outcome = "response" /\ resp.status = 200
                  /\ resp.render = "none"
                  /\ resp.target = Some(Resolve(resp.full_path).at)
                  /\ NodeAt(resp.target.v).kind = "file"
        /\ resp.access = "Dir" => (resp.outcome = "response" /\ resp.status = 404)

\* A Markdown file streamed as it is, and not rendered, in raw-only mode.
C8_Witness ==
    /\ raw /\ Handled
    /\ resp.access = "Markdown" /\ resp.status = 200 /\ resp.render = "none"
    /\ resp.target.some

\* The safety pass as the specification words it.
SafePass(cfg, path) ==
    ~HasDotDot(path) /\ ~HasHiddenName(cfg, path) /\ ~HasBlockedName(cfg, path)

Allowed(cfg, name, ext) ==
    cfg.allow_all \/ ext \in cfg.allowed_extensions \/ name \in cfg.allowed_file_names

\* The reference decision of the claim, for a file with an extension that
\* is allowed.
RefClassify(cfg, ext) ==
    IF ext \in cfg.markdown THEN "Markdown"
    ELSE IF MimeTopLevel(ext) = "text" THEN "Verbatim"
    ELSE "Raw"

\* The same, with an extension that is not valid UTF-8 denied.
RefClassifyUtf8(cfg, ext) ==
    IF ext \in cfg.markdown THEN "Markdown"
    ELSE IF ~IsUtf8(ext) THEN "None"
    ELSE IF MimeTopLevel(ext) = "text" THEN "Verbatim"
    ELSE "Raw"

RefDecision(cfg, path, Classify(_, _)) ==
    LET name == IF FileName(path).some THEN FileName(path).v ELSE << >>
        ext == Extension(path)
    IN  IF Metadata(path).is_dir THEN "Dir"
        ELSE IF ~ext.some
             THEN (IF name \in cfg.allowed_file_names \/ cfg.allow_all
                   THEN "Verbatim" ELSE "None")
        ELSE IF ~Allowed(cfg, name, ext.v) THEN "None"
        ELSE Classify(cfg, ext.v)

InScopeOfC9 ==
    Asked /\ MetadataReadable(resp.full_path) /\ SafePass(config, resp.full_path)

AbsentByClaim(cfg, dirAt, c) ==
    LET ext == Extension(c)
        isDir == NodeAt(Append(dirAt, c)).kind = "dir"
    IN  \/ NodeAt(Append(dirAt, c)).kind = "dangling"
        \/ (c[1] = DOT /\ c \notin cfg.allowed_file_names)
        \/ c \in cfg.blocked_file_names
        \/ (~isDir /\ ext.some /\ ~Allowed(cfg, c, ext.v))
        \/ (~isDir /\ ~ext.some /\ ~cfg.allow_all /\ c \notin cfg.allowed_file_names)

\* A file child whose extension is not valid UTF-8 (and so in no markdown
\* set of a configuration, which is made of strings).
BadExtension(cfg, dirAt, c) ==
    /\ NodeAt(Append(dirAt, c)).kind = "file"
    /\ Extension(c).some
    /\ ~IsUtf8(Extension(c).v)
    /\ Extension(c).v \notin cfg.markdown

ListedNames == {resp.entries[i].file_name : i \in 1..Len(resp.entries)}

ListingServed == Handled /\ ~raw /\ resp.render = "dir"

ListedSeq == [i \in 1..Len(resp.entries) |-> resp.entries[i].file_name]

NamesAscending(v) ==
    \A i, j \in 1..Len(v) : i < j => CmpNames(v[i], v[j], 1) = "Less"

\* The elements of v that are in S, in the order of v.
Restrict(v, S) == SelectSeq(v, LAMBDA x : x \in S)

DefaultOrder == req.order \in {"absent", "other"}

ModifiedOf(name) == NodeAt(Append(resp.target.v, name)).mtime

\* C12: with order=chronological, of any two listed entries whose
\* modification time can be read the earlier one comes first, also when
\* the listing holds entries whose modification time cannot be read.
C12_Chronological ==
    (ListingServed /\ req.order = "chronological") =>
        \A i, j \in 1..Len(ListedSeq) :
            (/\ i < j
             /\ ListedSeq[i] \notin dirio.unread
             /\ ListedSeq[j] \notin dirio.unread)
            => ModifiedOf(ListedSeq[i]) <= ModifiedOf(ListedSeq[j])

\* ---------------------------------------------------------------------
\* The root directory and the access decision.

\* Two root_dir values that name one directory (so the contents under
\* them are identical).
SameDirectory(root1, root2) ==
    Resolve(root1).ok /\ Resolve(root2).ok /\ Resolve(root1).at = Resolve(root2).at

\* The configuration that differs from cfg in root_dir only.
WithRoot(cfg, root) == [cfg EXCEPT !.root_dir = root]

\* The access decision the handler reaches on the request with the
\* configuration cfg.
AccessDecision(cfg) == handle(cfg, raw, req, Io(FALSE, "none")).access

\* C13: two configurations that differ only in root_dir, over identical
\* directory contents, reach the same access decision on the same
\* request: the component names of the root never cause a denial.
C13_RootIndependent ==
    (Handled /\ Asked) =>
        \A root \in RootDirs :
            SameDirectory(root, config.root_dir)
            => AccessDecision(WithRoot(config, root)) = resp.access

\* ---------------------------------------------------------------------
\* The listing and the dispatch of the requests for its entries.

\* A file name written as one segment of a URL.
EncodeName(name) == [i \in 1..Len(name) |-> IF name[i] = BAD THEN "%FF" ELSE name[i]]

\* The request for the child of the listed directory: the URL of the
\* directory plus the name, with a trailing slash when slash is set.
ChildRequest(name, slash) ==
    Request(SubSeq(req.segs, 1, Len(req.segs) - 1) \o <<EncodeName(name)>>
                \o (IF slash THEN <<EMPTY>> ELSE << >>),
            "absent", None)

\* The answer of the handler to the request for that child.
ChildResponse(name, slash) ==
    handle(config, raw, ChildRequest(name, slash), Io(FALSE, "none"))

\* The answer is the 404 of the policy: the path was denied, or it has
\* not the shape of what it names.
PolicyNotFound(rsp) ==
    rsp.outcome = "response" /\ rsp.status = 404 /\ rsp.code = 404

\* The request was answered from the child: no panic and no 404 of the
\* policy.
Servable(rsp) == rsp.outcome = "response" /\ ~PolicyNotFound(rsp)

=============================================================================
